---- MODULE Spec2Model ----
(***************************************************************************)
(* A model of the GraphQL-schema-to-Go source generator of src/gen.go:     *)
(* the type resolver (getNameNullable, getName, getFieldType), the         *)
(* placement policy (getFile), the renderers, the output aggregator        *)
(* (OutputFile.Add, OutputFiles.Get), the driver loop of main with its     *)
(* flush phase, and the polymorphic decode function that renderInterface   *)
(* emits.                                                                  *)
(*                                                                         *)
(* Go strings are TLA+ strings and "+" is \o.  A *string or *Type pointer  *)
(* is a sequence of length 0 (nil) or 1 (the pointee).  A call that ends   *)
(* the process (log.Fatalf, panic, a nil dereference) returns a result     *)
(* record with a non-empty err field.  Descriptions (doc comments) and     *)
(* enum values take part in no decision of the generator and are left out  *)
(* of the schema model; a rendered chunk is the sequence of its            *)
(* declaration lines.                                                      *)
(***************************************************************************)
EXTENDS Naturals, Sequences, FiniteSets, TLC

VARIABLES
    config,       \* the decoded Config (main: config)
    typ,          \* resolver calls: the schema.Type argument
    nullable,     \* resolver calls: the nullable argument
    ret,          \* resolver calls: the value returned (or the fatal outcome)
    pc,           \* resolver calls: which function has been applied
    ofile,        \* aggregator: one OutputFile
    calls,        \* aggregator: the Add calls made so far (history)
    schema,       \* driver: v.Data.Schema.Types
    pos,          \* driver: number of types the loop has started on
    outputFiles,  \* driver: the OutputFiles map
    sink,         \* driver: files written, file name -> sequence of writes
    status,       \* driver: "loop", "flush", "done", "fatal", "ioerr"
    skipLog,      \* driver: the SKIP lines printed
    run,          \* driver: ordinal of the current run
    prevSink,     \* driver: what the previous completed run wrote
    iface,        \* generated decoder: the interface type it was rendered for
    data,         \* generated decoder: the JSON payload
    out           \* generated decoder: the value and error returned

vars == <<config, typ, nullable, ret, pc, ofile, calls, schema, pos,
          outputFiles, sink, status, skipLog, run, prevSink, iface, data, out>>

resolverVars == <<typ, nullable, ret, pc>>
addVars == <<ofile, calls>>
driverVars == <<schema, pos, outputFiles, sink, status, skipLog, run, prevSink>>
decodeVars == <<iface, data, out>>

-----------------------------------------------------------------------------
(* Bounds of the model.                                                    *)

MaxDepth == 3      \* List/NonNull wrappers around a named type
MaxTypes == 3      \* length of schema.Types
MaxAdds == 3       \* Add calls on one OutputFile
MaxRuns == 2       \* runs of the driver over the same input

-----------------------------------------------------------------------------
(* pkg/schema/typekind                                                     *)

Scalar == "SCALAR"
Object == "OBJECT"
Interface == "INTERFACE"
Union == "UNION"
Enum == "ENUM"
InputObject == "INPUT_OBJECT"
List == "LIST"
NonNull == "NON_NULL"
FutureKind == "FUTURE_KIND"   \* a TypeKind string none of the constants names

(* pkg/schema: Type and Field.  Name and OfType are pointers.              *)

Nil == <<>>
Ptr(x) == <<x>>
Deref(p) == p[1]

Type(kind, name, ofType, fields, possibleTypes) ==
    [Kind |-> kind, Name |-> name, OfType |-> ofType,
     Fields |-> fields, PossibleTypes |-> possibleTypes]

Field(name, type) == [Name |-> name, Type |-> type]

Named(kind, name) == Type(kind, Ptr(name), Nil, <<>>, <<>>)
Unnamed(kind) == Type(kind, Nil, Nil, <<>>, <<>>)
ListOf(t) == Type(List, Nil, Ptr(t), <<>>, <<>>)
NonNullOf(t) == Type(NonNull, Nil, Ptr(t), <<>>, <<>>)

-----------------------------------------------------------------------------
(* Config, TypeConfig, FieldConfig, ScalarConfig.  A Go map is a function  *)
(* on the set of its keys; a missing key reads as the zero value.          *)

ScalarConfig(name, type, file) ==
    [Name |-> name, Import |-> "", Type |-> type, File |-> file]
ZeroScalarConfig == ScalarConfig("", "", "")

FieldConfig(type) == [Name |-> "", Import |-> "", Type |-> type]
ZeroFieldConfig == FieldConfig("")

TypeConfig(fields) ==
    [Name |-> "", Import |-> "", Type |-> "", Fields |-> fields, File |-> ""]
ZeroTypeConfig == TypeConfig(<<>>)

Config(types, scalars) == [Types |-> types, Scalars |-> scalars]

MapGet(m, k, zero) == IF k \in DOMAIN m THEN m[k] ELSE zero

-----------------------------------------------------------------------------
(* Outcomes of a call: a returned value, or the end of the process.        *)

Ok(v) == [err |-> "", val |-> v]
Fatalf == [err |-> "log.Fatalf", val |-> ""]
Panic == [err |-> "panic", val |-> ""]
IsOk(r) == r.err = ""

-----------------------------------------------------------------------------
(* The type resolver.                                                      *)

PredeclaredTypes ==
    {"bool", "byte", "complex64", "complex128", "error", "float32", "float64",
     "int", "int8", "int16", "int32", "int64", "rune", "string",
     "uint", "uint8", "uint16", "uint32", "uint64", "uintptr"}

isPredeclaredType(t) == t \in PredeclaredTypes

(* A variant of defaultScalars with the Int of pkg/schema goName ("int").  *)
defaultScalars_IntIsInt ==
    [n \in {"Int", "Float", "String", "Boolean", "ID"} |->
        CASE n = "Int" -> ScalarConfig("int", "", "")
          [] n = "Float" -> ScalarConfig("float64", "", "")
          [] n = "String" -> ScalarConfig("string", "", "")
          [] n = "Boolean" -> ScalarConfig("bool", "", "")
          [] n = "ID" -> ScalarConfig("", "string", "")]

defaultScalars ==
    [n \in {"Int", "Float", "String", "Boolean", "ID"} |->
        CASE n = "Int" -> ScalarConfig("int32", "", "")
          [] n = "Float" -> ScalarConfig("float64", "", "")
          [] n = "String" -> ScalarConfig("string", "", "")
          [] n = "Boolean" -> ScalarConfig("bool", "", "")
          [] n = "ID" -> ScalarConfig("", "string", "")]

getTypeConfig(cfg, name) == MapGet(cfg.Types, name, ZeroTypeConfig)

getScalarConfig(cfg, name) ==
    IF name \in DOMAIN cfg.Scalars THEN cfg.Scalars[name]
    ELSE IF name \in DOMAIN defaultScalars THEN defaultScalars[name]
    ELSE ZeroScalarConfig

(* prefix + *typ.Name of lines 159-162 *)
NameWithPrefix(prefix, t) ==
    IF t.Name = Nil THEN Panic ELSE Ok(prefix \o Deref(t.Name))

(* A variant of getNameNullable that prefixes the list itself.             *)
RECURSIVE getNameNullable_ListMarked(_, _, _)
getNameNullable_ListMarked(cfg, t, isNullable) ==
    LET prefix == IF isNullable THEN "*" ELSE ""
    IN  CASE t.Kind = Scalar ->
               IF t.Name = Nil THEN Panic
               ELSE LET sc == getScalarConfig(cfg, Deref(t.Name))
                    IN  IF sc.Name # "" /\ isPredeclaredType(sc.Name)
                        THEN IF sc.Type # "" /\ sc.Type # sc.Name
                             THEN Fatalf
                             ELSE Ok(prefix \o sc.Name)
                        ELSE IF sc.Name # ""
                             THEN Ok(prefix \o sc.Name)
                             ELSE NameWithPrefix(prefix, t)
          [] t.Kind = NonNull ->
               IF t.OfType = Nil THEN Panic
               ELSE getNameNullable_ListMarked(cfg, Deref(t.OfType), FALSE)
          [] t.Kind = List ->
               IF t.OfType = Nil THEN Panic
               ELSE LET r == getNameNullable_ListMarked(cfg, Deref(t.OfType), TRUE)
                    IN  IF IsOk(r) THEN Ok(prefix \o "[]" \o r.val) ELSE r
          [] t.Kind = Interface -> NameWithPrefix("", t)
          [] OTHER -> NameWithPrefix(prefix, t)

(* A variant of getNameNullable whose NonNull case passes nullable on.      *)
RECURSIVE getNameNullable_NonNullKeeps(_, _, _)
getNameNullable_NonNullKeeps(cfg, t, isNullable) ==
    LET prefix == IF isNullable THEN "*" ELSE ""
    IN  CASE t.Kind = Scalar ->
               IF t.Name = Nil THEN Panic
               ELSE LET sc == getScalarConfig(cfg, Deref(t.Name))
                    IN  IF sc.Name # "" /\ isPredeclaredType(sc.Name)
                        THEN IF sc.Type # "" /\ sc.Type # sc.Name
                             THEN Fatalf
                             ELSE Ok(prefix \o sc.Name)
                        ELSE IF sc.Name # ""
                             THEN Ok(prefix \o sc.Name)
                             ELSE NameWithPrefix(prefix, t)
          [] t.Kind = NonNull ->
               IF t.OfType = Nil THEN Panic
               ELSE getNameNullable_NonNullKeeps(cfg, Deref(t.OfType), isNullable)
          [] t.Kind = List ->
               IF t.OfType = Nil THEN Panic
               ELSE LET r == getNameNullable_NonNullKeeps(cfg, Deref(t.OfType), TRUE)
                    IN  IF IsOk(r) THEN Ok("[]" \o r.val) ELSE r
          [] t.Kind = Interface -> NameWithPrefix("", t)
          [] OTHER -> NameWithPrefix(prefix, t)

RECURSIVE getNameNullable(_, _, _)
getNameNullable(cfg, t, isNullable) ==
    LET prefix == IF isNullable THEN "*" ELSE ""
    IN  CASE t.Kind = Scalar ->
               IF t.Name = Nil THEN Panic
               ELSE LET sc == getScalarConfig(cfg, Deref(t.Name))
                    IN  IF sc.Name # "" /\ isPredeclaredType(sc.Name)
                        THEN IF sc.Type # "" /\ sc.Type # sc.Name
                             THEN Fatalf
                             ELSE Ok(prefix \o sc.Name)
                        ELSE IF sc.Name # ""
                             THEN Ok(prefix \o sc.Name)
                             ELSE NameWithPrefix(prefix, t)
          [] t.Kind = NonNull ->
               IF t.OfType = Nil THEN Panic
               ELSE getNameNullable(cfg, Deref(t.OfType), FALSE)
          [] t.Kind = List ->
               IF t.OfType = Nil THEN Panic
               ELSE LET r == getNameNullable(cfg, Deref(t.OfType), TRUE)
                    IN  IF IsOk(r) THEN Ok("[]" \o r.val) ELSE r
          [] t.Kind = Interface -> NameWithPrefix("", t)
          [] OTHER -> NameWithPrefix(prefix, t)

getName(cfg, t) == getNameNullable(cfg, t, TRUE)

getFieldType(cfg, t, field) ==
    IF t.Name = Nil THEN Panic
    ELSE LET tc == getTypeConfig(cfg, Deref(t.Name))
             fieldCfg == MapGet(tc.Fields, field.Name, ZeroFieldConfig)
         IN  IF fieldCfg.Type # "" THEN Ok(fieldCfg.Type)
             ELSE getName(cfg, field.Type)

-----------------------------------------------------------------------------
(* The placement policy.                                                   *)

(* A variant of getFile that looks at the kind before the predeclared      *)
(* check.                                                                  *)
getFile_KindFirst(cfg, t) ==
    LET name == getNameNullable(cfg, t, FALSE)
    IN  IF ~IsOk(name) THEN name
        ELSE CASE t.Kind = Scalar ->
                    LET sc == getScalarConfig(cfg, Deref(t.Name))
                    IN  IF sc.File # "" THEN Ok(sc.File)
                        ELSE IF isPredeclaredType(name.val) THEN Ok("")
                        ELSE Ok("scalars.go")
               [] t.Kind = Object -> Ok("types.go")
               [] t.Kind = Enum -> Ok("enums.go")
               [] t.Kind = Interface -> Ok("interfaces.go")
               [] t.Kind = Union -> Ok("unions.go")
               [] t.Kind = InputObject -> Ok("")
               [] OTHER -> IF isPredeclaredType(name.val) THEN Ok("") ELSE Panic

getFile(cfg, t) ==
    LET name == getNameNullable(cfg, t, FALSE)
    IN  IF ~IsOk(name) THEN name
        ELSE IF isPredeclaredType(name.val) THEN Ok("")
        ELSE CASE t.Kind = Scalar ->
                    LET sc == getScalarConfig(cfg, Deref(t.Name))
                    IN  IF sc.File # "" THEN Ok(sc.File) ELSE Ok("scalars.go")
               [] t.Kind = Object -> Ok("types.go")
               [] t.Kind = Enum -> Ok("enums.go")
               [] t.Kind = Interface -> Ok("interfaces.go")
               [] t.Kind = Union -> Ok("unions.go")
               [] t.Kind = InputObject -> Ok("")
               [] OTHER -> Panic

-----------------------------------------------------------------------------
(* Inputs of the model: schema types and configurations.                   *)

IntT == Named(Scalar, "Int")
StringT == Named(Scalar, "String")
IDT == Named(Scalar, "ID")
DateTimeT == Named(Scalar, "DateTime")
ActorRef == Named(Interface, "Actor")
UserRef == Named(Object, "User")
BotRef == Named(Object, "Bot")

UserT ==
    Type(Object, Ptr("User"), Nil,
         <<Field("login", NonNullOf(StringT)),
           Field("createdAt", DateTimeT)>>, <<>>)
RepoT ==
    Type(Object, Ptr("Repo"), Nil,
         <<Field("owner", ActorRef),
           Field("stars", ListOf(IntT))>>, <<>>)
ActorT ==
    Type(Interface, Ptr("Actor"), Nil,
         <<Field("login", NonNullOf(StringT))>>, <<UserRef, BotRef>>)
StatusT == Named(Enum, "Status")
ErrorEnumT == Named(Enum, "error")
SearchT == Type(Union, Ptr("SearchResult"), Nil, <<>>, <<UserRef, BotRef>>)
UserInputT == Named(InputObject, "UserInput")
FutureT == Named(FutureKind, "Future")
FutureStringT == Named(FutureKind, "string")

NamedTypes ==
    {IntT, StringT, IDT, DateTimeT, UserT, ActorT, StatusT, ErrorEnumT,
     SearchT, UserInputT, FutureT, FutureStringT}

(* Malformed nodes: a named kind without a name, a wrapper without ofType. *)
MalformedTypes ==
    {Unnamed(Scalar), Unnamed(Object), Unnamed(List), Unnamed(NonNull)}

RECURSIVE Wrapped(_, _)
Wrapped(S, d) ==
    IF d = 0 THEN S
    ELSE LET W == Wrapped(S, d - 1)
         IN  W \cup {ListOf(t) : t \in W} \cup {NonNullOf(t) : t \in W}

TypeRefs == Wrapped(NamedTypes \cup MalformedTypes, MaxDepth)

ScalarConfigs ==
    {ScalarConfig(n, t, f) : n \in {"", "int64", "Time"},
                             t \in {"", "string", "int64"},
                             f \in {"", "time.go"}}

ScalarMaps ==
    {<<>>} \cup {(s :> c) : s \in {"Int", "DateTime"}, c \in ScalarConfigs}

ResolverConfigs == {Config(<<>>, s) : s \in ScalarMaps}

-----------------------------------------------------------------------------
(* Defaults for the variables a specification does not use.                *)

NoType == Unnamed("")
NoConfig == Config(<<>>, <<>>)
NoFile == [Package |-> "", Imports |-> <<>>, Chunks |-> <<>>]

ResolverIdle ==
    /\ typ = NoType /\ nullable = FALSE /\ ret = Ok("") /\ pc = "idle"
AddIdle ==
    /\ ofile = NoFile /\ calls = <<>>
DriverIdle ==
    /\ schema = <<>> /\ pos = 0 /\ outputFiles = <<>> /\ sink = <<>>
    /\ status = "idle" /\ skipLog = <<>> /\ run = 0 /\ prevSink = <<>>
DecodeIdle ==
    /\ iface = NoType /\ data = <<>> /\ out = <<>>

-----------------------------------------------------------------------------
(* Specification SpecResolve: one call of getNameNullable or getFile on    *)
(* an input drawn from the bounded sets.                                   *)

InitResolve ==
    /\ config \in ResolverConfigs
    /\ typ \in TypeRefs
    /\ nullable \in BOOLEAN
    /\ ret = Ok("")
    /\ pc = "input"
    /\ AddIdle /\ DriverIdle /\ DecodeIdle

CallGetNameNullable ==
    /\ pc = "input"
    /\ ret' = getNameNullable(config, typ, nullable)
    /\ pc' = "getNameNullable"
    /\ UNCHANGED <<config, typ, nullable, addVars, driverVars, decodeVars>>

CallGetFile ==
    /\ pc = "input"
    /\ ret' = getFile(config, typ)
    /\ pc' = "getFile"
    /\ UNCHANGED <<config, typ, nullable, addVars, driverVars, decodeVars>>

NextResolve == CallGetNameNullable \/ CallGetFile

SpecResolve == InitResolve /\ [][NextResolve]_vars

Returned(fn) == pc = fn
HasOfType == typ.OfType # Nil
Inner == Deref(typ.OfType)

\* C1 (as amended): for every List(T), with either value of nullable, the
\* resolved name is "[]" followed by getNameNullable(T, true), with no marker
\* for the list as a whole; a fatal outcome of resolving T is the outcome.
C1_ListName ==
    (Returned("getNameNullable") /\ typ.Kind = List /\ HasOfType) =>
        LET r == getNameNullable(config, Inner, TRUE)
        IN  /\ IsOk(r) => ret = Ok("[]" \o r.val)
            /\ ~IsOk(r) => ret = r
            /\ typ = ListOf(UserT) => ret = Ok("[]*User")
            /\ typ = ListOf(NonNullOf(UserT)) => ret = Ok("[]User")
            /\ typ = ListOf(ActorT) => ret = Ok("[]Actor")

C1_Witness ==
    /\ Returned("getNameNullable") /\ nullable
    /\ typ = ListOf(UserT) /\ ret = Ok("[]*User")

\* C1 (original): a List(T) resolved with nullable=true is "*" followed by
\* "[]" and getNameNullable(T, true); with nullable=false the "*" is absent.
C1_Original ==
    (Returned("getNameNullable") /\ typ.Kind = List /\ HasOfType /\ IsOk(ret)) =>
        ret.val = (IF nullable THEN "*" ELSE "") \o "[]"
                    \o getNameNullable(config, Inner, TRUE).val

NoIntOverride == "Int" \notin DOMAIN config.Scalars

\* C2 (as amended): for the scalar Int with no entry in config.Scalars,
\* getNameNullable returns "int32" when nullable=false and "*int32" when
\* nullable=true: the predeclared identifier is not renamed, and the
\* nullability marker is prefixed to it as to any other name.
C2_IntName ==
    (Returned("getNameNullable") /\ typ = IntT /\ NoIntOverride) =>
        ret = IF nullable THEN Ok("*int32") ELSE Ok("int32")

C2_Witness ==
    /\ Returned("getNameNullable") /\ typ = IntT /\ NoIntOverride
    /\ nullable /\ ret = Ok("*int32")

\* C2 (original): for the scalar Int with no entry in config.Scalars,
\* getNameNullable returns exactly "int32" for both values of nullable.
C2_Original ==
    (Returned("getNameNullable") /\ typ = IntT /\ NoIntOverride) =>
        ret = Ok("int32")

\* C3: for every NonNull(T) and either value of nullable,
\* getNameNullable(NonNull(T), nullable) is getNameNullable(T, false); through
\* NonNull(List(NonNull(U))) the element U is resolved with nullable=false.
C3_NonNullStrips ==
    (Returned("getNameNullable") /\ typ.Kind = NonNull /\ HasOfType) =>
        /\ ret = getNameNullable(config, Inner, FALSE)
        /\ typ = NonNullOf(UserT) => ret = Ok("User")
        /\ typ = NonNullOf(NonNullOf(UserT)) => ret = Ok("User")
        /\ typ = NonNullOf(ListOf(NonNullOf(UserT))) => ret = Ok("[]User")
        /\ typ = NonNullOf(ListOf(UserT)) => ret = Ok("[]*User")
        /\ (typ = NonNullOf(IntT) /\ NoIntOverride) => ret = Ok("int32")

C3_Witness ==
    /\ Returned("getNameNullable") /\ nullable
    /\ typ = NonNullOf(ListOf(NonNullOf(UserT))) /\ ret = Ok("[]User")

HandledKinds == {Scalar, Object, Enum, Interface, Union}
PlacedKinds == HandledKinds \cup {InputObject}

\* C5 (as amended): getFile first resolves the non-nullable name; if that is
\* fatal, getFile is fatal; if the name is a predeclared identifier the result
\* is "" for every kind (a scalar whose config sets File, a NonNull node around
\* a predeclared scalar, an unknown kind); otherwise Scalar -> config File if
\* set else "scalars.go", Object -> "types.go", Enum -> "enums.go",
\* Interface -> "interfaces.go", Union -> "unions.go", InputObject -> "", and
\* any other kind (List, NonNull, unknown) is a fatal failure.
C5_Placement ==
    Returned("getFile") =>
        LET name == getNameNullable(config, typ, FALSE)
        IN  /\ ~IsOk(name) => ret = name
            /\ (IsOk(name) /\ name.val \in PredeclaredTypes) => ret = Ok("")
            /\ (IsOk(name) /\ name.val \notin PredeclaredTypes) =>
                 /\ typ.Kind = Scalar =>
                      LET f == getScalarConfig(config, Deref(typ.Name)).File
                      IN  ret = Ok(IF f # "" THEN f ELSE "scalars.go")
                 /\ typ.Kind = Object => ret = Ok("types.go")
                 /\ typ.Kind = Enum => ret = Ok("enums.go")
                 /\ typ.Kind = Interface => ret = Ok("interfaces.go")
                 /\ typ.Kind = Union => ret = Ok("unions.go")
                 /\ typ.Kind = InputObject => ret = Ok("")
                 /\ typ.Kind \notin PlacedKinds => ret = Panic

C5_Witness ==
    /\ Returned("getFile") /\ typ = DateTimeT
    /\ "DateTime" \in DOMAIN config.Scalars
    /\ config.Scalars["DateTime"].File = "time.go"
    /\ config.Scalars["DateTime"].Name = "int64"
    /\ ret = Ok("")

\* C5 (original): every List or NonNull node, whatever it wraps, and every
\* unknown kind reaching getFile is a fatal failure, never a skip or a file.
C5_Original ==
    (Returned("getFile") /\ typ.Kind \notin PlacedKinds) => ~IsOk(ret)

-----------------------------------------------------------------------------
(* The output aggregator.                                                  *)

OutputFile(pkg) == [Package |-> pkg, Imports |-> <<>>, Chunks |-> <<>>]

HasImport(f, s) == \E i \in 1..Len(f.Imports) : f.Imports[i] = s

(* The loop of Add over its imports argument, one element at a time.       *)
RECURSIVE AddImports(_, _)
AddImports(f, imports) ==
    IF imports = <<>> THEN f
    ELSE LET im == Head(imports)
             g == IF ~HasImport(f, im)
                  THEN [f EXCEPT !.Imports = Append(@, im)]
                  ELSE f
         IN  AddImports(g, Tail(imports))

(* A variant of Add that tests membership against the imports the file     *)
(* had before the call only.                                               *)
Add_DedupAgainstOld(f, imports, chunk) ==
    LET fresh == SelectSeq(imports, LAMBDA im : ~HasImport(f, im))
    IN  [f EXCEPT !.Imports = @ \o fresh, !.Chunks = Append(@, chunk)]

Add(f, imports, chunk) ==
    [AddImports(f, imports) EXCEPT !.Chunks = Append(@, chunk)]

(* OutputFiles.Get returns the map after the call; the accumulator it      *)
(* returns is the entry of file in that map.                               *)
(* A variant of Get that registers a fresh accumulator on every call.      *)
Get_AlwaysNew(fs, file, pkg) ==
    [f \in DOMAIN fs \cup {file} |->
        IF f = file THEN OutputFile(pkg) ELSE fs[f]]

Get(fs, file, pkg) ==
    IF file \in DOMAIN fs THEN fs
    ELSE [f \in DOMAIN fs \cup {file} |->
            IF f = file THEN OutputFile(pkg) ELSE fs[f]]

-----------------------------------------------------------------------------
(* Specification SpecAdd: a sequence of Add calls on one OutputFile.       *)

ImportNames == {"encoding/json", "fmt"}
ImportLists ==
    {<<>>} \cup {<<a>> : a \in ImportNames}
           \cup {<<a, b>> : a \in ImportNames, b \in ImportNames}
ChunkTexts == {"type A string\n", "type B string\n"}

InitAdd ==
    /\ ofile = OutputFile("fixmepkg")
    /\ calls = <<>>
    /\ config = NoConfig
    /\ ResolverIdle /\ DriverIdle /\ DecodeIdle

CallAdd ==
    /\ Len(calls) < MaxAdds
    /\ \E imports \in ImportLists, chunk \in ChunkTexts :
          /\ ofile' = Add(ofile, imports, chunk)
          /\ calls' = Append(calls, [imports |-> imports, chunk |-> chunk])
    /\ UNCHANGED <<config, resolverVars, driverVars, decodeVars>>

NextAdd == CallAdd

SpecAdd == InitAdd /\ [][NextAdd]_vars

RECURSIVE Flatten(_)
Flatten(ss) == IF ss = <<>> THEN <<>> ELSE Head(ss) \o Flatten(Tail(ss))

Range(q) == {q[i] : i \in 1..Len(q)}
FirstIndex(q, x) == CHOOSE i \in 1..Len(q) : q[i] = x /\ \A j \in 1..(i - 1) : q[j] # x
IsPrefix(p, q) == Len(p) <= Len(q) /\ \A i \in 1..Len(p) : p[i] = q[i]

PassedImports == Flatten([i \in 1..Len(calls) |-> calls[i].imports])

C4_State ==
    /\ ofile.Chunks = [i \in 1..Len(calls) |-> calls[i].chunk]
    /\ Range(ofile.Imports) = Range(PassedImports)
    /\ \A i, j \in 1..Len(ofile.Imports) :
          i < j => /\ ofile.Imports[i] # ofile.Imports[j]
                   /\ FirstIndex(PassedImports, ofile.Imports[i])
                        < FirstIndex(PassedImports, ofile.Imports[j])

C4_Step ==
    /\ IsPrefix(ofile.Imports, ofile'.Imports)
    /\ IsPrefix(ofile.Chunks, ofile'.Chunks)
    /\ Len(ofile'.Chunks) = Len(ofile.Chunks) + 1

\* C4: after any sequence of Add calls, Chunks is the sequence of the chunk
\* arguments in call order (duplicates kept) and Imports holds every import
\* ever passed exactly once, ordered by first appearance, also when one call
\* repeats a string; every call keeps the existing imports and chunks as a
\* prefix of the new lists.
C4_AddAccumulates == [](C4_State) /\ [][C4_Step]_vars

C4_Witness ==
    /\ Len(calls) = 3
    /\ calls[1].imports = <<"fmt", "fmt">>
    /\ calls[2].imports = <<"encoding/json", "fmt">>
    /\ calls[1].chunk = calls[3].chunk
    /\ ofile.Imports = <<"fmt", "encoding/json">>
    /\ Len(ofile.Chunks) = 3

-----------------------------------------------------------------------------
(* The renderers.  A renderer returns Ok([imports, chunk]) or the fatal    *)
(* outcome of the first call that ends the process.                        *)

RECURSIVE Concat(_)
Concat(ss) == IF ss = <<>> THEN "" ELSE Head(ss) \o Concat(Tail(ss))

Min(S) == CHOOSE x \in S : \A y \in S : x <= y

(* strings.Title on the field names of the model *)
Title(s) ==
    CASE s = "login" -> "Login"
      [] s = "createdAt" -> "CreatedAt"
      [] s = "owner" -> "Owner"
      [] s = "stars" -> "Stars"
      [] OTHER -> s

Quote(s) == "\"" \o s \o "\""

(* The struct tag that binds a field to its wire name.  A TLA+ string      *)
(* cannot hold the backquote that delimits the tag in Go; "'" stands for   *)
(* it.                                                                     *)
Tag(wire) == "'json:" \o Quote(wire) \o "'"

Rendered(imports, text) == Ok([imports |-> imports, chunk |-> text])

(* The outcome of the first element of rs that is fatal, in loop order.    *)
FirstFatal(rs) == rs[Min({i \in 1..Len(rs) : ~IsOk(rs[i])})]
AllOk(rs) == \A i \in 1..Len(rs) : IsOk(rs[i])

renderObject(cfg, t) ==
    LET name == getNameNullable(cfg, t, FALSE)
        n == Len(t.Fields)
        F(i) == t.Fields[i]
        ft == [i \in 1..n |-> getFieldType(cfg, t, F(i))]
        isIface(i) == F(i).Type.Kind = Interface
        decl == [i \in 1..n |->
                    (IF i # 1 THEN "\n" ELSE "")
                    \o "\tfield_" \o F(i).Name \o " " \o ft[i].val
                    \o " " \o Tag(F(i).Name) \o "\n"]
        accessor == [i \in 1..n |->
                    "\nfunc (o " \o name.val \o ") " \o Title(F(i).Name)
                    \o "() " \o ft[i].val \o " {\n"
                    \o "\treturn o.field_" \o F(i).Name \o "\n" \o "}\n"]
        shadow == [i \in 1..n |->
                    IF isIface(i)
                    THEN "\t\tfield_" \o F(i).Name \o " json.RawMessage "
                         \o Tag(F(i).Name) \o "\n"
                    ELSE "\t\tfield_" \o F(i).Name \o " " \o ft[i].val
                         \o " " \o Tag(F(i).Name) \o "\n"]
        assign == [i \in 1..n |->
                    IF isIface(i)
                    THEN "\to.field_" \o F(i).Name \o ", err = " \o ft[i].val
                         \o "_UnmarshalJSON(v.field_" \o F(i).Name \o ")\n"
                         \o "\tif err != nil {\n" \o "\t\treturn err\n" \o "\t}\n"
                    ELSE "\to.field_" \o F(i).Name \o " = v.field_"
                         \o F(i).Name \o "\n"]
    IN  IF ~IsOk(name) THEN name
        ELSE IF ~AllOk(ft) THEN FirstFatal(ft)
        ELSE Rendered(<<"encoding/json">>,
                "type " \o name.val \o " struct {\n" \o Concat(decl) \o "}\n"
                \o Concat(accessor)
                \o "\nfunc (o *" \o name.val \o ") UnmarshalJSON(data []byte) error {\n"
                \o "\tvar v struct {\n" \o Concat(shadow) \o "\t}\n"
                \o "\terr := json.Unmarshal(data, &v)\n"
                \o "\tif err != nil {\n" \o "\t\treturn err\n" \o "\t}\n"
                \o Concat(assign)
                \o "\treturn nil\n" \o "}\n")

(* A variant of renderScalar without the check of the backing type.        *)
renderScalar_NoTypeCheck(cfg, t) ==
    LET name == getNameNullable(cfg, t, FALSE)
        sc == getScalarConfig(cfg, Deref(t.Name))
    IN  IF ~IsOk(name) THEN name
        ELSE Rendered(<<>>, "type " \o name.val \o " " \o sc.Type \o "\n")

renderScalar(cfg, t) ==
    LET name == getNameNullable(cfg, t, FALSE)
        sc == getScalarConfig(cfg, Deref(t.Name))
    IN  IF ~IsOk(name) THEN name
        ELSE IF sc.Type = "" THEN Fatalf
        ELSE Rendered(<<>>, "type " \o name.val \o " " \o sc.Type \o "\n")

(* The case clauses of the switch that renderInterface emits: one per      *)
(* possible type, then the clause for "".                                  *)
SwitchCases(cfg, t) ==
    [i \in 1..Len(t.PossibleTypes) |->
        LET pt == t.PossibleTypes[i]
            target == getNameNullable(cfg, pt, FALSE)
        IN  IF pt.Name = Nil THEN Panic
            ELSE IF ~IsOk(target) THEN target
            ELSE Ok([label |-> Deref(pt.Name), target |-> target.val])]

(* The field of the probe struct that the emitted function decodes the     *)
(* discriminator into, and its json tag.                                   *)
ProbeField == [name |-> "typename", tag |-> "__typename"]

renderInterface(cfg, t) ==
    LET name == getNameNullable(cfg, t, FALSE)
        n == Len(t.Fields)
        F(i) == t.Fields[i]
        ft == [i \in 1..n |-> getName(cfg, F(i).Type)]
        cases == SwitchCases(cfg, t)
        method == [i \in 1..n |->
                    (IF i # 1 THEN "\n" ELSE "")
                    \o "\t" \o Title(F(i).Name) \o "() " \o ft[i].val \o "\n"]
        untyped == [i \in 1..n |->
                    "\nfunc (m Untyped_" \o name.val \o ") " \o Title(F(i).Name)
                    \o "() " \o ft[i].val \o " {\n"
                    \o "\treturn m[" \o Quote(F(i).Name) \o "].(" \o ft[i].val \o ")\n"
                    \o "}\n"]
        clause == [i \in 1..Len(cases) |->
                    "\tcase " \o Quote(cases[i].val.label) \o ":\n"
                    \o "\t\tvar v " \o cases[i].val.target \o "\n"
                    \o "\t\terr = json.Unmarshal(data, &v)\n"
                    \o "\t\treturn v, err\n"]
    IN  IF ~IsOk(name) THEN name
        ELSE IF ~AllOk(ft) THEN FirstFatal(ft)
        ELSE IF ~AllOk(cases) THEN FirstFatal(cases)
        ELSE Rendered(<<"encoding/json", "fmt">>,
                (IF n = 0
                 THEN "type " \o name.val \o " interface{}\n"
                 ELSE "type " \o name.val \o " interface {\n"
                      \o Concat(method) \o "}\n")
                \o "\ntype Untyped_" \o name.val \o " map[string]interface{}\n"
                \o Concat(untyped)
                \o "\nfunc " \o name.val \o "_UnmarshalJSON(data []byte) ("
                \o name.val \o ", error) {\n"
                \o "\tvar t struct {\n\t\t" \o ProbeField.name \o " string "
                \o Tag(ProbeField.tag) \o "\n\t}\n"
                \o "\terr := json.Unmarshal(data, &t)\n"
                \o "\tif err != nil {\n" \o "\t\treturn nil, err\n" \o "\t}\n"
                \o "\tswitch t.typename {\n"
                \o Concat(clause)
                \o "\tcase \"\":\n"
                \o "\t\tvar v Untyped_" \o name.val \o "\n"
                \o "\t\terr = json.Unmarshal(data, &v)\n"
                \o "\t\treturn v, err\n"
                \o "\t}\n"
                \o "\treturn nil, fmt.Errorf(\"unexpected __typename for interface %s: %s\", "
                \o Quote(name.val) \o ", t.typename)\n"
                \o "}\n")

renderUnion(cfg, t) ==
    LET name == getNameNullable(cfg, t, FALSE)
    IN  IF ~IsOk(name) THEN name
        ELSE Rendered(<<>>, "type " \o name.val \o " interface{}\n")

renderEnum(cfg, t) ==
    LET name == getNameNullable(cfg, t, FALSE)
    IN  IF ~IsOk(name) THEN name
        ELSE Rendered(<<>>, "type " \o name.val \o " string\n")

-----------------------------------------------------------------------------
(* The driver: main.                                                       *)

pkg == "fixmepkg"

(* A variant in which the accumulator map outlives a run.                  *)
MakeOutputFiles_Reused == outputFiles

(* outputFiles := make(OutputFiles) *)
MakeOutputFiles == <<>>

(* The switch of the loop body: the renderer of the type's kind.           *)
Render(cfg, t) ==
    CASE t.Kind = Object -> renderObject(cfg, t)
      [] t.Kind = Scalar -> renderScalar(cfg, t)
      [] t.Kind = Enum -> renderEnum(cfg, t)
      [] t.Kind = Interface -> renderInterface(cfg, t)
      [] t.Kind = Union -> renderUnion(cfg, t)

SkipLine(t) == "SKIP " \o t.Kind \o " " \o Deref(t.Name) \o "\n"

FilePath(file) == "./fixmepkg/" \o file

(* What the flush loop writes into one file.                               *)
FileText(f) ==
    "package " \o f.Package \o "\n"
    \o (IF Len(f.Imports) > 0
        THEN "\n" \o "import (\n"
             \o Concat([i \in 1..Len(f.Imports) |->
                           "\t" \o Quote(f.Imports[i]) \o "\n"])
             \o ")\n"
        ELSE "")
    \o Concat([i \in 1..Len(f.Chunks) |-> "\n" \o f.Chunks[i]])

DriverTypes ==
    {IntT, IDT, DateTimeT, UserT, RepoT, ActorT, StatusT, SearchT,
     UserInputT, ListOf(UserT), Unnamed(Object), FutureT}

DriverConfigs ==
    {Config(<<>>, <<>>),
     Config(<<>>, "DateTime" :> ScalarConfig("", "string", "")),
     Config("User" :> TypeConfig("createdAt" :> FieldConfig("time.Time")),
            "DateTime" :> ScalarConfig("Time", "string", "time.go")),
     Config(<<>>, "DateTime" :> ScalarConfig("int64", "string", "")),
     Config(<<>>, "DateTime" :> ScalarConfig("string", "", "time.go"))}

(* schema.Types: type names are unique within a schema document.           *)
RECURSIVE Schemas(_)
Schemas(n) ==
    IF n = 0 THEN {<<>>}
    ELSE LET S == Schemas(n - 1)
         IN  S \cup {Append(q, t) : q \in {x \in S : Len(x) = n - 1},
                                    t \in DriverTypes}

Distinct(q) == \A i, j \in 1..Len(q) : i # j => q[i] # q[j]

InitDriver ==
    /\ config \in DriverConfigs
    /\ schema \in {q \in Schemas(MaxTypes) : Distinct(q)}
    /\ pos = 0
    /\ outputFiles = <<>>
    /\ sink = <<>>
    /\ status = "start"
    /\ skipLog = <<>>
    /\ run = 1
    /\ prevSink = <<>>
    /\ ResolverIdle /\ AddIdle /\ DecodeIdle

(* lines 367-390: the inputs are decoded, the accumulator map is made.     *)
StartRun ==
    /\ status = "start"
    /\ outputFiles' = MakeOutputFiles
    /\ status' = "loop"
    /\ UNCHANGED <<config, schema, pos, sink, skipLog, run, prevSink,
                   resolverVars, addVars, decodeVars>>

(* One iteration of the loop over schema.Types, lines 392-418.             *)
ProcessType ==
    /\ status = "loop"
    /\ pos < Len(schema)
    /\ pos' = pos + 1
    /\ LET t == schema[pos + 1]
           file == getFile(config, t)
       IN  IF ~IsOk(file)
           THEN /\ status' = "fatal"
                /\ UNCHANGED <<outputFiles, skipLog>>
           ELSE IF file.val = ""
           THEN UNCHANGED <<status, outputFiles, skipLog>>
           ELSE LET fs == Get(outputFiles, file.val, pkg)
                IN  IF t.Kind \in HandledKinds
                    THEN LET r == Render(config, t)
                         IN  IF IsOk(r)
                             THEN /\ outputFiles' =
                                        [fs EXCEPT ![file.val] =
                                            Add(@, r.val.imports, r.val.chunk)]
                                  /\ UNCHANGED <<status, skipLog>>
                             ELSE /\ outputFiles' = fs
                                  /\ status' = "fatal"
                                  /\ UNCHANGED skipLog
                    ELSE /\ outputFiles' = fs
                         /\ IF t.Name = Nil
                            THEN status' = "fatal" /\ UNCHANGED skipLog
                            ELSE /\ skipLog' = Append(skipLog, SkipLine(t))
                                 /\ UNCHANGED status
    /\ UNCHANGED <<config, schema, sink, run, prevSink,
                   resolverVars, addVars, decodeVars>>

(* The loop over schema.Types is exhausted; the flush loop begins.         *)
EndLoop ==
    /\ status = "loop"
    /\ pos = Len(schema)
    /\ status' = "flush"
    /\ UNCHANGED <<config, schema, pos, outputFiles, sink, skipLog, run,
                   prevSink, resolverVars, addVars, decodeVars>>

Pending == {f \in DOMAIN outputFiles : FilePath(f) \notin DOMAIN sink}

(* One iteration of the range over the outputFiles map, lines 420-447:     *)
(* every key is visited once, in an order the language leaves open.        *)
FlushFile ==
    /\ status = "flush"
    /\ \E f \in Pending :
          sink' = [p \in DOMAIN sink \cup {FilePath(f)} |->
                      IF p = FilePath(f)
                      THEN <<[file |-> outputFiles[f],
                              text |-> FileText(outputFiles[f])]>>
                      ELSE sink[p]]
    /\ UNCHANGED <<config, schema, pos, outputFiles, status, skipLog, run,
                   prevSink, resolverVars, addVars, decodeVars>>

(* os.MkdirAll or os.OpenFile fails for the file of the iteration.         *)
FlushFail ==
    /\ status = "flush"
    /\ Pending # {}
    /\ status' = "ioerr"
    /\ UNCHANGED <<config, schema, pos, outputFiles, sink, skipLog, run,
                   prevSink, resolverVars, addVars, decodeVars>>

(* The range is exhausted and main returns.                                *)
Finish ==
    /\ status = "flush"
    /\ Pending = {}
    /\ status' = "done"
    /\ UNCHANGED <<config, schema, pos, outputFiles, sink, skipLog, run,
                   prevSink, resolverVars, addVars, decodeVars>>

(* The generator is run again on the same schema and config.               *)
Rerun ==
    /\ status = "done"
    /\ run < MaxRuns
    /\ run' = run + 1
    /\ prevSink' = sink
    /\ sink' = <<>>
    /\ pos' = 0
    /\ skipLog' = <<>>
    /\ status' = "start"
    /\ UNCHANGED <<config, schema, outputFiles, resolverVars, addVars,
                   decodeVars>>

NextDriver ==
    \/ StartRun
    \/ ProcessType
    \/ EndLoop
    \/ FlushFile
    \/ FlushFail
    \/ Finish
    \/ Rerun

SpecDriver == InitDriver /\ [][NextDriver]_vars

Processed == 1..pos
Flushing == status \in {"flush", "done", "ioerr"}
Unsupported(t) == t.Kind \notin HandledKinds

\* C6: a top-level type whose kind is none of Scalar, Object, Enum,
\* Interface, Union that the driver loop has met is reported with its
\* "SKIP kind name" line, and the run has not aborted on it.
C6_UnsupportedReported ==
    \A i \in Processed :
        Unsupported(schema[i]) =>
            /\ ~(status = "fatal" /\ i = pos)
            /\ schema[i].Name # Nil => SkipLine(schema[i]) \in Range(skipLog)

(* The fatal conditions that C7 lists, stated of a top-level type.         *)
ListedFatal(t) ==
    LET name == getNameNullable(config, t, FALSE)
        sc == getScalarConfig(config, Deref(t.Name))
    IN  \/ /\ t.Kind = Scalar /\ t.Name # Nil
           /\ sc.Name \in PredeclaredTypes
           /\ sc.Type # "" /\ sc.Type # sc.Name
        \/ /\ t.Kind = Scalar /\ t.Name # Nil
           /\ IsOk(name) /\ name.val \notin PredeclaredTypes
           /\ sc.Type = ""
        \/ /\ t.Kind \notin {List, NonNull}
           /\ t.Name = Nil
        \/ /\ IsOk(name) /\ name.val \notin PredeclaredTypes
           /\ t.Kind \notin PlacedKinds

\* C7: a run that stops on a fatal condition has delivered nothing to the
\* sink; a schema holding a type with one of the listed fatal conditions (a
\* scalar whose config Name is predeclared and whose config Type is non-empty
\* and different; a non-predeclared scalar without a backing Type; a named kind
\* with a nil name; a kind the placement switch does not know) never reaches
\* the flush and the run stops at the first such type; anything is written
\* only after every type has been processed.
C7_FatalDeliversNothing ==
    /\ status = "fatal" => sink = <<>>
    /\ (\E i \in 1..Len(schema) : ListedFatal(schema[i])) =>
          sink = <<>> /\ ~Flushing
    /\ \A i \in Processed :
          ListedFatal(schema[i]) => status = "fatal" /\ pos = i
    /\ sink # <<>> => Flushing /\ pos = Len(schema)

C7_Witness ==
    /\ status = "fatal"
    /\ pos = 3
    /\ ListedFatal(schema[3])
    /\ \E f \in DOMAIN outputFiles : Len(outputFiles[f].Chunks) = 2
    /\ sink = <<>>

Placement(i) == getFile(config, schema[i])
RoutedTo(f) ==
    SelectSeq([i \in 1..Len(schema) |-> i], LAMBDA i : Placement(i) = Ok(f))
PlacedFiles(upto) ==
    {Placement(i).val : i \in {j \in 1..upto : IsOk(Placement(j))}} \ {""}

Dedup(q) ==
    LET keep == SelectSeq([i \in 1..Len(q) |-> i],
                          LAMBDA i : FirstIndex(q, q[i]) = i)
    IN  [k \in 1..Len(keep) |-> q[keep[k]]]

(* The file that document order alone determines for a file identifier.    *)
ExpectedFile(f) ==
    LET routed == RoutedTo(f)
        rs == [k \in 1..Len(routed) |-> Render(config, schema[routed[k]]).val]
    IN  [Package |-> pkg,
         Imports |-> Dedup(Flatten([k \in 1..Len(rs) |-> rs[k].imports])),
         Chunks |-> [k \in 1..Len(rs) |-> rs[k].chunk]]

\* C9: what a completed run has written is a function of the schema Types
\* sequence and the config alone: for every file identifier the package, the
\* imports in first-required order and the chunks in the document order of the
\* types routed to the file, whatever the order in which the map was iterated;
\* and a second run over the same input writes exactly what the first wrote.
C9_Deterministic ==
    status = "done" =>
        /\ DOMAIN sink = {FilePath(f) : f \in PlacedFiles(Len(schema))}
        /\ \A f \in PlacedFiles(Len(schema)) :
              sink[FilePath(f)] = <<[file |-> ExpectedFile(f),
                                     text |-> FileText(ExpectedFile(f))]>>
        /\ run > 1 => sink = prevSink

C9_Witness ==
    /\ status = "done" /\ run = 2
    /\ schema = <<RepoT, ActorT, UserT>>
    /\ sink = prevSink
    /\ Len(sink[FilePath("types.go")][1].file.Chunks) = 2
    /\ sink[FilePath("interfaces.go")][1].file.Imports = <<"encoding/json", "fmt">>

\* C10: OutputFiles.Get is called only for a non-empty placement, it
\* registers an empty accumulator tagged with the package on first use and
\* returns the registered one afterwards, contents kept; in the flush phase
\* every registered file has at least one chunk, one per type routed to it, and
\* no file is handed to the sink more than once; a completed run has handed
\* every registered file exactly once, and a schema whose types are all skipped
\* produces no file.
C10_LazyNonEmpty ==
    /\ status \in {"loop", "flush", "done", "ioerr"} =>
          /\ DOMAIN outputFiles = PlacedFiles(pos)
          /\ \A f \in DOMAIN outputFiles :
                /\ outputFiles[f].Package = pkg
                /\ Len(outputFiles[f].Chunks) =
                      Cardinality({i \in Processed : Placement(i) = Ok(f)})
    /\ Flushing => \A f \in DOMAIN outputFiles : Len(outputFiles[f].Chunks) >= 1
    /\ \A p \in DOMAIN sink :
          /\ Len(sink[p]) = 1
          /\ \E f \in DOMAIN outputFiles :
                p = FilePath(f) /\ sink[p][1].file = outputFiles[f]
    /\ status = "done" => DOMAIN sink = {FilePath(f) : f \in DOMAIN outputFiles}
    /\ (status = "done" /\ \A i \in 1..Len(schema) : Placement(i) = Ok(""))
          => outputFiles = <<>> /\ sink = <<>>

C10_Witness ==
    /\ status = "done"
    /\ schema = <<UserT, UserInputT, RepoT>>
    /\ DOMAIN outputFiles = {"types.go"}
    /\ Len(outputFiles["types.go"].Chunks) = 2
    /\ DOMAIN sink = {FilePath("types.go")}

-----------------------------------------------------------------------------
(* The function <Interface>_UnmarshalJSON that renderInterface emits,      *)
(* lines 309-329, executed on a payload.  A payload is a JSON object: a    *)
(* function from its keys to string values.                                *)

(* encoding/json sets only the exported fields of a struct: those whose    *)
(* name starts with an upper-case letter.  The identifiers of the model:   *)
ExportedIdentifiers == {"Typename"}
IsExported(name) == name \in ExportedIdentifiers

(* json.Unmarshal(data, &t) for the probe struct: the value of its field.  *)
UnmarshalProbe(payload, field) ==
    IF IsExported(field.name) /\ field.tag \in DOMAIN payload
    THEN payload[field.tag]
    ELSE ""

(* json.Unmarshal(data, &v) for v of the named type.                       *)
DecodeAs(typeName, payload) == [type |-> typeName, from |-> payload]

NilValue == [type |-> "nil", from |-> <<>>]

Errorf(ifaceName, typename) ==
    "unexpected __typename for interface " \o ifaceName \o ": " \o typename

Interface_UnmarshalJSON(cfg, t, payload) ==
    LET name == getNameNullable(cfg, t, FALSE).val
        typename == UnmarshalProbe(payload, ProbeField)
        cases == SwitchCases(cfg, t)
        hit == {i \in 1..Len(cases) : cases[i].val.label = typename}
    IN  IF hit # {}
        THEN [value |-> DecodeAs(cases[Min(hit)].val.target, payload), err |-> ""]
        ELSE IF typename = ""
        THEN [value |-> DecodeAs("Untyped_" \o name, payload), err |-> ""]
        ELSE [value |-> NilValue, err |-> Errorf(name, typename)]

-----------------------------------------------------------------------------
(* Specification SpecDecode: the emitted decoder of an interface, applied  *)
(* to one payload.                                                         *)

OrgRef == Named(Object, "Organization")
PossibleRefs == {UserRef, BotRef, OrgRef}
PossibleLists ==
    {<<>>} \cup {<<a>> : a \in PossibleRefs}
           \cup {p \in PossibleRefs \X PossibleRefs : p[1] # p[2]}

Interfaces ==
    {Type(Interface, Ptr("Actor"), Nil,
          <<Field("login", NonNullOf(StringT))>>, pts) : pts \in PossibleLists}

Payloads ==
    {("login" :> l) : l \in {"alice", "bob"}}
    \cup {("__typename" :> d) @@ ("login" :> l) :
             d \in {"", "User", "Bot", "Robot"}, l \in {"alice", "bob"}}

InitDecode ==
    /\ config = NoConfig
    /\ iface \in Interfaces
    /\ data \in Payloads
    /\ out = <<>>
    /\ ResolverIdle /\ AddIdle /\ DriverIdle

CallUnmarshalJSON ==
    /\ out = <<>>
    /\ IsOk(renderInterface(config, iface))
    /\ out' = Interface_UnmarshalJSON(config, iface, data)
    /\ UNCHANGED <<config, iface, data, resolverVars, addVars, driverVars>>

NextDecode == CallUnmarshalJSON

SpecDecode == InitDecode /\ [][NextDecode]_vars

Discriminator == IF "__typename" \in DOMAIN data THEN data["__typename"] ELSE ""
PossibleNames == {Deref(iface.PossibleTypes[i].Name) : i \in 1..Len(iface.PossibleTypes)}

\* C8: the emitted <Interface>_UnmarshalJSON decodes a payload whose
\* "__typename" names a declared possible type P into P's record type, as
\* decoding the payload directly as P does; a payload with an absent or empty
\* discriminator into the Untyped_<Interface> fallback without error; and a
\* payload with any other discriminator yields no value and an error naming the
\* interface and the discriminator.
C8_DecodeDispatch ==
    out # <<>> =>
        /\ Discriminator \in PossibleNames =>
              out = [value |-> DecodeAs(Discriminator, data), err |-> ""]
        /\ Discriminator = "" =>
              out = [value |-> DecodeAs("Untyped_Actor", data), err |-> ""]
        /\ (Discriminator # "" /\ Discriminator \notin PossibleNames) =>
              out = [value |-> NilValue, err |-> Errorf("Actor", Discriminator)]

====
